---- MODULE Spec2Model ----
(***************************************************************************)
(* Model of the classification engine of fileclassify (src/models.go):     *)
(* splitFileList, callAPI, processClassificationChunk,                     *)
(* processChunksConcurrently, handleUnclassifiedFiles,                     *)
(* mergeClassificationResults and ClassifyFiles, and of the text-level     *)
(* helpers extractJSONFromContent, fixIncompleteJSON and isValidJSON.      *)
(*                                                                         *)
(* Conventions.                                                            *)
(*  - A path is a natural number: path i stands for the i-th distinct path *)
(*    string; path equality is the only operation the engine uses.         *)
(*  - A FileInfo is a record [Path, Category]; Category "" is Go's zero    *)
(*    value.                                                               *)
(*  - A Go map[string][]FileInfo is a function from a finite set of        *)
(*    category names to sequences of FileInfo.                             *)
(*  - An error is the sequence of the tokens of its message; the nil error *)
(*    is the empty sequence.  fmt.Errorf("prefix: %v", err) prepends the   *)
(*    prefix tokens; strings.Contains(msg, "JSON") looks for the token     *)
(*    "JSON".                                                              *)
(*  - TLA+ strings are ASCII: the reserved category name of                *)
(*    handleUnclassifiedFiles (src/models.go:476) is written "weifenlei".  *)
(*  - A worker's writes to processedFiles take no lock.  While two workers *)
(*    are at their writes the Go runtime may abort the process             *)
(*    ("concurrent map writes"); otherwise all writes land, since the keys *)
(*    exist already and the values go to separate slots.                   *)
(*  - The statement allResults = append(allResults, result) reads the list *)
(*    and then writes it; the model keeps the value read in sliceRead.     *)
(*  - Where the text of a reply is decoded (SpecReply), a path and a       *)
(*    category name are the sequences of characters the reply spells.      *)
(*  - Go map iteration order is unspecified.  It only affects the order of *)
(*    the list handleUnclassifiedFiles builds.  That list is kept as the   *)
(*    set of its entries, which stands for every order of them; the value  *)
(*    ClassifyFiles returns keeps it apart, in the field unordered.        *)
(***************************************************************************)
EXTENDS Naturals, Integers, Sequences, FiniteSets, TLC

VARIABLES
    files,              \* argument of ClassifyFiles
    chunks,             \* chunks := splitFileList(files)
    processedFiles,     \* map path -> bool shared by all workers
    pc,                 \* position of the ClassifyFiles goroutine
    wpc,                \* position of each worker goroutine
    attempt,            \* callAPI: loop variable i of each worker
    sleeps,             \* callAPI: the backoff durations slept so far (s)
    history,            \* callAPI: outcome of each doAPICall so far
    callRet,            \* callAPI: value returned, once it has returned
    reply,              \* the categories decoded from the fetched reply
    result,             \* classifiedFiles of each worker
    mu,                 \* sync.Mutex: 0 when free, else the holder
    allResults,         \* shared results list
    sliceRead,          \* the value of allResults each worker's append read
    errChan,            \* buffered error channel
    unclassifiedFiles,  \* value handleUnclassifiedFiles returned
    ret,                \* value ClassifyFiles returned
    crashed,            \* the Go runtime aborted the process
    content,            \* text handed to the repair step
    repaired            \* results of successive applications of the repair

vars == <<files, chunks, processedFiles, pc, wpc, attempt, sleeps, history,
          callRet, reply, result, mu, allResults, sliceRead,
          errChan,
          unclassifiedFiles, ret, crashed, content, repaired>>

engineVars == <<files, chunks, processedFiles, pc, wpc, attempt, sleeps,
                history, callRet, reply, result, mu, allResults,
                sliceRead, errChan,
                unclassifiedFiles, ret, crashed>>

textVars == <<content, repaired>>

auxVars == <<content, repaired>>

(***************************************************************************)
(* Bounds of the model.                                                    *)
(***************************************************************************)
\* texts: a string value has at most MaxUnits characters or escapes
MaxUnits == 2
\* small inputs are all lists of at most MaxSmallLen paths out of 1..MaxPath
MaxSmallLen == 2
MaxPath == 2
\* large inputs have maxFilesPerChunk .. maxFilesPerChunk + MaxExtra files
MaxExtra == 1
\* a partial reply mentions at most MaxMentions (category, path) pairs
MaxMentions == 2

(***************************************************************************)
(* Program constants.                                                      *)
(***************************************************************************)
maxFilesPerChunk == 150
\* a loop that makes one attempt too many
maxAttemptsOneMore == 3 + 1

\* src/models.go:498
maxAttempts == 3
Unclassified == "weifenlei"

(***************************************************************************)
(* Generic helpers.                                                        *)
(***************************************************************************)
Min(a, b) == IF a < b THEN a ELSE b

Range(s) == {s[i] : i \in 1..Len(s)}

RECURSIVE Pow2(_)
Pow2(n) == IF n = 0 THEN 1 ELSE 2 * Pow2(n - 1)

RECURSIVE SeqsUpTo(_, _)
SeqsUpTo(S, n) ==
    IF n = 0 THEN {<<>>}
    ELSE LET shorter == SeqsUpTo(S, n - 1)
         IN  shorter \cup {Append(s, x) : s \in shorter, x \in S}

FileInfo(p) == [Path |-> p, Category |-> ""]

PathsOf(fs) == {fs[i].Path : i \in 1..Len(fs)}

PathSeq(fs) == [i \in 1..Len(fs) |-> fs[i].Path]

EmptyMap == [c \in {} |-> <<>>]

NilErr == <<>>

(***************************************************************************)
(* splitFileList (src/models.go:257-268).                                  *)
(***************************************************************************)
\* a loop that stops before a last chunk shorter than size
RECURSIVE SplitFullChunksOnly(_, _, _)
SplitFullChunksOnly(fs, i, size) ==
    IF i + size > Len(fs) THEN <<>>
    ELSE <<SubSeq(fs, i + 1, i + size)>>
         \o SplitFullChunksOnly(fs, i + size, size)

\* the loop of splitFileList, with the chunk size as a parameter
RECURSIVE SplitFrom(_, _, _)
SplitFrom(fs, i, size) ==
    IF i >= Len(fs) THEN <<>>
    ELSE LET end == Min(i + size, Len(fs))
         IN  <<SubSeq(fs, i + 1, end)>> \o SplitFrom(fs, i + size, size)

\* a loop that tests its condition after the body: one chunk even when the
\* list is empty
splitAtLeastOnce(fs) ==
    IF Len(fs) = 0 THEN <<fs>> ELSE SplitFrom(fs, 0, maxFilesPerChunk)

splitFileList(fs) == SplitFrom(fs, 0, maxFilesPerChunk)

(***************************************************************************)
(* The Transport (doAPICall, src/models.go:519-567) is the environment.    *)
(* One call either returns a response or fails with an error message.      *)
(***************************************************************************)
\* a message without the substring "JSON" (src/models.go:539)
TransientErr == <<"send request failed:", "timeout">>
\* a message with the substring "JSON" (src/models.go:559)
JSONErr == <<"decode response failed:", "unexpected end of", "JSON", "input">>

\* the errors one doAPICall may return
TransportErrors == {TransientErr, JSONErr}

\* a test that looks for the lower-case word
ContainsLowerCaseJSON(err) == \E i \in 1..Len(err) : err[i] = "json"

\* strings.Contains(err.Error(), "JSON") (src/models.go:505)
ContainsJSON(err) == \E i \in 1..Len(err) : err[i] = "JSON"

\* category names a reply may use beside those of Assign
ReplyCategories == {"docs", Unclassified}

\* the category a consistent model gives a path, whatever batch it is in
Assign(p) == IF p % 2 = 1 THEN "docs" ELSE "images"

NoPath == 0 - 1

\* the paths a partial reply to chunk k may mention: the first path of the
\* chunk and a path that is not in the chunk (the first path of the next
\* chunk when there is one, else the invented path 0)
Ghost(cs, k) == IF Len(cs) > 1 THEN cs[(k % Len(cs)) + 1][1].Path ELSE 0

Mentionable(cs, k) == {cs[k][1].Path, Ghost(cs, k)}

Mentions(cs, k) ==
    [cat : ReplyCategories, path : Mentionable(cs, k) \cup {NoPath}]

\* the map[string][]string a sequence of mentions denotes; a mention of
\* NoPath only creates the key
MapOfMentions(ms) ==
    [c \in {ms[i].cat : i \in 1..Len(ms)} |->
        LET Listed(m) == m.cat = c /\ m.path # NoPath
            sel == SelectSeq(ms, Listed)
        IN  [i \in 1..Len(sel) |-> sel[i].path]]

\* the reply of a consistent model that covers every file of the chunk
FullReply(chunk) ==
    [c \in {Assign(chunk[i].Path) : i \in 1..Len(chunk)} |->
        LET InCat(p) == Assign(p) = c
        IN  SelectSeq(PathSeq(chunk), InCat)]

CategoryMaps(cs, k) ==
    {MapOfMentions(ms) : ms \in SeqsUpTo(Mentions(cs, k), MaxMentions)}
    \cup {FullReply(cs[k])}

\* A response: one whose first choice has as content a JSON object that
\* decodes to categories, a text that fails isValidJSON after repair, or a
\* text that passes isValidJSON but that json.Unmarshal rejects; or one
\* that has no choice at all (src/models.go:58-65 and 557-566: a body such
\* as {"choices": []} decodes without error).
Responses(cs, k) ==
    {[kind |-> "object", categories |-> m] : m \in CategoryMaps(cs, k)}
    \cup {[kind |-> "invalid", categories |-> EmptyMap],
          [kind |-> "unparsable", categories |-> EmptyMap],
          [kind |-> "nochoices", categories |-> EmptyMap]}

NoResponse == [kind |-> "none", categories |-> EmptyMap]

(***************************************************************************)
(* callAPI (src/models.go:493-516), one doAPICall or sleep at a time.      *)
(***************************************************************************)
NoCallRet == [returned |-> FALSE, response |-> NoResponse, err |-> NilErr]

\* src/models.go:510
Backoff(i) == Pow2(i)

\* src/models.go:515
ExhaustedErr(err) == <<"still failing after", "3", "retries:">> \o err

(***************************************************************************)
(* processClassificationChunk (src/models.go:299-392).                     *)
(***************************************************************************)
\* index of the first file of the chunk with this path, 0 when none
\* (src/models.go:380-387)
FindFile(chunk, path) ==
    LET hits == {i \in 1..Len(chunk) : chunk[i].Path = path}
    IN  IF hits = {} THEN 0
        ELSE CHOOSE i \in hits : \A j \in hits : i <= j

\* src/models.go:378-388: the list built for one category, one entry for
\* every listed path that is the path of a file of the chunk
Stamped(chunk, category, found) ==
    [j \in 1..Len(found) |-> [chunk[found[j]] EXCEPT !.Category = category]]

ResolveCategory(chunk, category, filePaths) ==
    LET Found(i) == i # 0
    IN  Stamped(chunk, category,
                SelectSeq([j \in 1..Len(filePaths) |->
                              FindFile(chunk, filePaths[j])], Found))

\* src/models.go:376-389
ClassifiedFiles(chunk, categories) ==
    [c \in DOMAIN categories |-> ResolveCategory(chunk, c, categories[c])]

\* a loop that sets the flag of every listed path the map has a key for,
\* whatever batch the file is in
MarkedAnywhere(chunk, categories) ==
    DOMAIN processedFiles
        \cap UNION {Range(categories[c]) : c \in DOMAIN categories}

\* the keys of processedFiles the loop sets to true (src/models.go:384)
MarkedPaths(chunk, categories) ==
    PathsOf(chunk) \cap UNION {Range(categories[c]) : c \in DOMAIN categories}

\* the map after processedFiles[p] = true for every p of marked
MarkAll(processed, marked) ==
    [p \in DOMAIN processed |-> IF p \in marked THEN TRUE ELSE processed[p]]

\* src/models.go:345: response.Choices[0] of a response without choices is
\* an index out of range
NoFirstChoice(cr) == cr.err = NilErr /\ cr.response.kind = "nochoices"

\* a test of the reply that lets an empty map through
ChunkErrAcceptingEmpty(cr) ==
    IF cr.err # NilErr THEN <<"API call failed:">> \o cr.err
    ELSE IF cr.response.kind = "invalid"
         THEN <<"API returned incomplete JSON content">>
    ELSE IF cr.response.kind = "unparsable"
         THEN <<"parsing classification result failed">>
    ELSE NilErr

\* src/models.go:339-365: the error of the chunk, NilErr when there is none
ChunkErr(cr) ==
    IF cr.err # NilErr THEN <<"API call failed:">> \o cr.err
    ELSE IF cr.response.kind = "invalid"
         THEN <<"API returned incomplete JSON content">>
    ELSE IF cr.response.kind = "unparsable"
         THEN <<"parsing classification result failed">>
    ELSE IF DOMAIN cr.response.categories = {}
         THEN <<"API returned an empty classification">>
    ELSE NilErr

\* src/models.go:412; workers are numbered from 1, as i+1 in the message
BatchErr(i, err) == <<"processing batch", ToString(i), "failed:">> \o err

(***************************************************************************)
(* mergeClassificationResults (src/models.go:271-279).                     *)
(***************************************************************************)
RECURSIVE MergeInto(_, _, _)
MergeInto(merged, results, i) ==
    IF i > Len(results) THEN merged
    ELSE LET r == results[i]
             next == [c \in DOMAIN merged \cup DOMAIN r |->
                        IF c \in DOMAIN r
                        THEN (IF c \in DOMAIN merged THEN merged[c] ELSE <<>>)
                             \o r[c]
                        ELSE merged[c]]
         IN  MergeInto(next, results, i + 1)

\* a merge that assigns instead of appending
RECURSIVE OverwriteInto(_, _, _)
OverwriteInto(merged, results, i) ==
    IF i > Len(results) THEN merged
    ELSE LET r == results[i]
             next == [c \in DOMAIN merged \cup DOMAIN r |->
                        IF c \in DOMAIN r THEN r[c] ELSE merged[c]]
         IN  OverwriteInto(next, results, i + 1)

mergeOverwriting(results) == OverwriteInto(EmptyMap, results, 1)

mergeClassificationResults(results) == MergeInto(EmptyMap, results, 1)

(***************************************************************************)
(* handleUnclassifiedFiles (src/models.go:461-490).  The value is a record *)
(* [isNil, map]: the function returns nil when every file was processed.   *)
(* The list under the reserved category is built in the order in which the *)
(* range over processedFiles yields the keys (src/models.go:463), which Go *)
(* leaves unspecified: the list is kept as the set of its entries.  The    *)
(* keys of a map are distinct, so no entry occurs twice.                   *)
(***************************************************************************)
\* a scan that takes every key, whatever its flag
UnprocessedIgnoringFlag(fs, processed) ==
    LET First(i) == \A j \in 1..(i - 1) : fs[j].Path # fs[i].Path
    IN  {i \in 1..Len(fs) : First(i)}

\* src/models.go:462-467 and 477-485: the keys the scan collects in
\* unprocessedFiles.  A key whose value is false stands as the index of the
\* first input file that has this path, the file the inner loop takes.  The
\* map has as many keys as there are files exactly when the paths of the
\* input are pairwise distinct.
UnprocessedIndexes(fs, processed) ==
    LET distinct == Cardinality(DOMAIN processed) = Len(fs)
        FirstUnprocessed(i) ==
            /\ ~processed[fs[i].Path]
            /\ distinct \/ \A j \in 1..(i - 1) : fs[j].Path # fs[i].Path
    IN  {i \in 1..Len(fs) : FirstUnprocessed(i)}

NilMap == [isNil |-> TRUE, map |-> EmptyMap]

\* src/models.go:469-489
UnclassifiedOf(fs, unprocessedFiles) ==
    IF unprocessedFiles # {}
    THEN [isNil |-> FALSE,
          map |-> [c \in {Unclassified} |->
                     {[fs[i] EXCEPT !.Category = Unclassified] :
                         i \in unprocessedFiles}]]
    ELSE NilMap

handleUnclassifiedFiles(fs, processed) ==
    UnclassifiedOf(fs, UnprocessedIndexes(fs, processed))

(***************************************************************************)
(* processChunksConcurrently after the barrier (src/models.go:423-431) and *)
(* the rest of ClassifyFiles (src/models.go:446-457).                      *)
(***************************************************************************)
\* a fan-in that never looks at the error channel
ChunksReturnIgnoringErrors(results, errs) ==
    [isNil |-> FALSE, results |-> results, err |-> NilErr]

\* a fan-in that drains the channel and keeps the last error
ChunksReturnLastError(results, errs) ==
    IF Len(errs) > 0
    THEN [isNil |-> TRUE, results |-> <<>>, err |-> errs[Len(errs)]]
    ELSE [isNil |-> FALSE, results |-> results, err |-> NilErr]

\* src/models.go:427-431
ChunksReturn(results, errs) ==
    IF Len(errs) > 0
    THEN [isNil |-> TRUE, results |-> <<>>, err |-> Head(errs)]
    ELSE [isNil |-> FALSE, results |-> results, err |-> NilErr]

NoRet ==
    [returned |-> FALSE, isNil |-> TRUE, map |-> EmptyMap,
     unordered |-> EmptyMap, err |-> NilErr]

\* the map of handleUnclassifiedFiles with its lists left empty
KeysOf(m) == [c \in DOMAIN m |-> <<>>]

\* src/models.go:446-457, given what handleUnclassifiedFiles returns.  The
\* map of the guard is merged last: in the value returned, map[c] holds the
\* entries of the batches under c, in the order of the results list, and
\* unordered[c] the entries of the guard, which follow them in the list of
\* c in the order the scan of the guard took.
ClassifyReturnValue(results, errs, un) ==
    LET cr == ChunksReturn(results, errs)
        all == IF ~un.isNil /\ Cardinality(DOMAIN un.map) > 0
               THEN Append(cr.results, KeysOf(un.map))
               ELSE cr.results
    IN  IF cr.err # NilErr
        THEN [returned |-> TRUE, isNil |-> TRUE, map |-> EmptyMap,
              unordered |-> EmptyMap, err |-> cr.err]
        ELSE [returned |-> TRUE, isNil |-> FALSE,
              map |-> mergeClassificationResults(all),
              unordered |-> un.map, err |-> NilErr]

(***************************************************************************)
(* The state machine of one ClassifyFiles call.                            *)
(***************************************************************************)
SmallInputs ==
    {[i \in 1..Len(s) |-> FileInfo(s[i])] :
        s \in SeqsUpTo(1..MaxPath, MaxSmallLen)}

LargeInputs ==
    {[i \in 1..n |-> FileInfo(i)] :
        n \in maxFilesPerChunk..(maxFilesPerChunk + MaxExtra)}

Inputs == SmallInputs \cup LargeInputs

Workers == 1..Len(chunks)

NoText == <<>>

TextIdle == content = NoText /\ repaired = <<>>

EngineInit ==
    /\ chunks = <<>>
    /\ processedFiles = [p \in {} |-> FALSE]
    /\ pc = "start"
    /\ wpc = <<>>
    /\ attempt = <<>>
    /\ sleeps = <<>>
    /\ history = <<>>
    /\ callRet = <<>>
    /\ reply = <<>>
    /\ result = <<>>
    /\ mu = 0
    /\ allResults = <<>>
    /\ sliceRead = <<>>
    /\ errChan = <<>>
    /\ unclassifiedFiles = NilMap
    /\ ret = NoRet
    /\ crashed = FALSE

Init ==
    /\ files \in Inputs
    /\ EngineInit
    /\ TextIdle

\* src/models.go:437-443 and the loop that starts one goroutine per chunk
\* (src/models.go:403-420)
ClassifyStart ==
    /\ pc = "start"
    /\ ~crashed
    /\ LET cs == splitFileList(files)
           ws == 1..Len(cs)
       IN  /\ chunks' = cs
           /\ processedFiles' = [p \in PathsOf(files) |-> FALSE]
           /\ wpc' = [w \in ws |-> "call"]
           /\ attempt' = [w \in ws |-> 0]
           /\ sleeps' = [w \in ws |-> <<>>]
           /\ history' = [w \in ws |-> <<>>]
           /\ callRet' = [w \in ws |-> NoCallRet]
           /\ reply' = [w \in ws |-> NoResponse]
           /\ result' = [w \in ws |-> EmptyMap]
           /\ sliceRead' = [w \in ws |-> <<>>]
    /\ pc' = "wait"
    /\ UNCHANGED <<files, mu, allResults, errChan, unclassifiedFiles, ret,
                   crashed, auxVars>>

\* callAPI, src/models.go:499-501: the attempt succeeds
AttemptOK(w) ==
    /\ ~crashed
    /\ wpc[w] = "call"
    /\ \E r \in Responses(chunks, w) :
          callRet' = [callRet EXCEPT ![w] =
                        [returned |-> TRUE, response |-> r, err |-> NilErr]]
    /\ history' = [history EXCEPT ![w] = Append(@, NilErr)]
    /\ wpc' = [wpc EXCEPT ![w] = "returned"]
    /\ UNCHANGED <<files, chunks, processedFiles, pc, attempt, sleeps, reply,
                   result, mu, allResults, sliceRead, errChan,
                   unclassifiedFiles, ret, crashed, auxVars>>

\* callAPI, src/models.go:499-512: the attempt fails.  A JSON error is
\* returned at once; after any other error the goroutine calls time.Sleep
\* with the backoff of this iteration
AttemptFails(w) ==
    /\ ~crashed
    /\ wpc[w] = "call"
    /\ \E err \in TransportErrors :
          /\ history' = [history EXCEPT ![w] = Append(@, err)]
          /\ IF ContainsJSON(err)
             THEN /\ callRet' = [callRet EXCEPT ![w] =
                                   [returned |-> TRUE, response |-> NoResponse,
                                    err |-> err]]
                  /\ wpc' = [wpc EXCEPT ![w] = "returned"]
                  /\ UNCHANGED sleeps
             ELSE /\ sleeps' = [sleeps EXCEPT ![w] =
                                  Append(@, Backoff(attempt[w]))]
                  /\ wpc' = [wpc EXCEPT ![w] = "sleeping"]
                  /\ UNCHANGED callRet
    /\ UNCHANGED <<files, chunks, processedFiles, pc, attempt, reply, result,
                   mu, allResults, sliceRead, errChan, unclassifiedFiles, ret,
                   crashed, auxVars>>

\* callAPI, src/models.go:512, 498 and 515: time.Sleep returns, i++, and the
\* loop either goes on with the next attempt or ends, and callAPI returns
\* the terminal error, which wraps the error of the last attempt
SleepEnds(w) ==
    /\ ~crashed
    /\ wpc[w] = "sleeping"
    /\ attempt' = [attempt EXCEPT ![w] = @ + 1]
    /\ IF attempt[w] + 1 < maxAttempts
       THEN /\ wpc' = [wpc EXCEPT ![w] = "call"]
            /\ UNCHANGED callRet
       ELSE /\ callRet' = [callRet EXCEPT ![w] =
                             [returned |-> TRUE,
                              response |-> NoResponse,
                              err |-> ExhaustedErr(
                                         history[w][Len(history[w])])]]
            /\ wpc' = [wpc EXCEPT ![w] = "returned"]
    /\ UNCHANGED <<files, chunks, processedFiles, pc, sleeps, history, reply,
                   result, mu, allResults, sliceRead, errChan,
                   unclassifiedFiles, ret, crashed, auxVars>>

\* the locals of callAPI are gone once processClassificationChunk goes on
CallLocalsDropped(w) ==
    /\ attempt' = [attempt EXCEPT ![w] = 0]
    /\ sleeps' = [sleeps EXCEPT ![w] = <<>>]
    /\ history' = [history EXCEPT ![w] = <<>>]
    /\ callRet' = [callRet EXCEPT ![w] = NoCallRet]

\* a worker that asks the Transport again when the reply it fetched is
\* malformed
ChunkFailsAndAsksAgain(w) ==
    /\ ~crashed
    /\ wpc[w] = "returned"
    /\ ~NoFirstChoice(callRet[w])
    /\ ChunkErr(callRet[w]) # NilErr
    /\ IF callRet[w].err = NilErr
       THEN /\ wpc' = [wpc EXCEPT ![w] = "call"]
            /\ UNCHANGED errChan
       ELSE /\ Len(errChan) < Len(chunks)
            /\ errChan' = Append(errChan, BatchErr(w, ChunkErr(callRet[w])))
            /\ wpc' = [wpc EXCEPT ![w] = "deferred"]
    /\ reply' = [reply EXCEPT ![w] = callRet[w].response]
    /\ CallLocalsDropped(w)
    /\ UNCHANGED <<files, chunks, processedFiles, pc, result, mu, allResults,
                   sliceRead, unclassifiedFiles, ret, crashed, auxVars>>

\* src/models.go:340-365 fail, and the worker reports the error and
\* returns (src/models.go:411-414); the send blocks while the channel is
\* full.  The deferred wg.Done() is still to run.
ChunkFails(w) ==
    /\ ~crashed
    /\ wpc[w] = "returned"
    /\ ~NoFirstChoice(callRet[w])
    /\ ChunkErr(callRet[w]) # NilErr
    /\ Len(errChan) < Len(chunks)
    /\ errChan' = Append(errChan, BatchErr(w, ChunkErr(callRet[w])))
    /\ reply' = [reply EXCEPT ![w] = callRet[w].response]
    /\ wpc' = [wpc EXCEPT ![w] = "deferred"]
    /\ CallLocalsDropped(w)
    /\ UNCHANGED <<files, chunks, processedFiles, pc, result, mu, allResults,
                   sliceRead, unclassifiedFiles, ret, crashed, auxVars>>

\* src/models.go:340-383: the reply is decoded and classifiedFiles is built
\* from the chunk; the goroutine then stands before its writes to
\* processedFiles, if it has any to do
ChunkResolves(w) ==
    /\ ~crashed
    /\ wpc[w] = "returned"
    /\ ~NoFirstChoice(callRet[w])
    /\ ChunkErr(callRet[w]) = NilErr
    /\ LET categories == callRet[w].response.categories
       IN  /\ result' = [result EXCEPT ![w] =
                           ClassifiedFiles(chunks[w], categories)]
           /\ wpc' = [wpc EXCEPT ![w] =
                        IF MarkedPaths(chunks[w], categories) # {}
                        THEN "writing" ELSE "lock"]
    /\ reply' = [reply EXCEPT ![w] = callRet[w].response]
    /\ CallLocalsDropped(w)
    /\ UNCHANGED <<files, chunks, processedFiles, pc, mu, allResults,
                   sliceRead, errChan, unclassifiedFiles, ret, crashed,
                   auxVars>>

\* src/models.go:345 and 406: the index expression panics in the goroutine.
\* The panic unwinds the goroutine and runs its deferred wg.Done(); nothing
\* recovers.
ChoicesIndexPanics(w) ==
    /\ ~crashed
    /\ wpc[w] = "returned"
    /\ NoFirstChoice(callRet[w])
    /\ wpc' = [wpc EXCEPT ![w] = "panicked"]
    /\ UNCHANGED <<files, chunks, processedFiles, pc, attempt, sleeps, history,
                   callRet, reply, result, mu, allResults, sliceRead, errChan,
                   unclassifiedFiles, ret, crashed, auxVars>>

\* the Go runtime ends the process once the deferred calls of a goroutine
\* that panicked have run; until then the other goroutines go on
PanicEndsProcess ==
    /\ ~crashed
    /\ \E w \in Workers : wpc[w] = "panicked"
    /\ crashed' = TRUE
    /\ UNCHANGED <<files, chunks, processedFiles, pc, wpc, attempt, sleeps,
                   history, callRet, reply, result, mu, allResults, sliceRead,
                   errChan, unclassifiedFiles, ret, auxVars>>

\* src/models.go:384: the writes processedFiles[file.Path] = true of one
\* worker, done without holding any lock
MarkProcessed(w) ==
    /\ ~crashed
    /\ wpc[w] = "writing"
    /\ processedFiles' =
          MarkAll(processedFiles,
                  MarkedPaths(chunks[w], reply[w].categories))
    /\ wpc' = [wpc EXCEPT ![w] = "lock"]
    /\ UNCHANGED <<files, chunks, pc, attempt, sleeps, history, callRet, reply,
                   result, mu, allResults, sliceRead, errChan,
                   unclassifiedFiles, ret, crashed, auxVars>>

\* Two goroutines write the same Go map at the same time.  The writes go to
\* existing keys, so either all of them land (MarkProcessed) or the runtime
\* detects the race and aborts the process ("concurrent map writes").
ConcurrentWriters ==
    {w \in Workers : wpc[w] = "writing"}

ConcurrentMapWritesFatal ==
    /\ ~crashed
    /\ Cardinality(ConcurrentWriters) >= 2
    /\ crashed' = TRUE
    /\ UNCHANGED <<files, chunks, processedFiles, pc, wpc, attempt, sleeps,
                   history, callRet, reply, result, mu, allResults, sliceRead,
                   errChan, unclassifiedFiles, ret, auxVars>>

\* a Lock that does not wait for the holder to unlock
LockNotWaiting(w) ==
    /\ ~crashed
    /\ wpc[w] = "lock"
    /\ mu' = w
    /\ sliceRead' = [sliceRead EXCEPT ![w] = allResults]
    /\ wpc' = [wpc EXCEPT ![w] = "locked"]
    /\ UNCHANGED <<files, chunks, processedFiles, pc, attempt, sleeps, history,
                   callRet, reply, result, allResults, errChan,
                   unclassifiedFiles, ret, crashed, auxVars>>

\* src/models.go:416-417: mu.Lock(), and append reads allResults.  Nothing
\* can change allResults between the two while the mutex is held.
Lock(w) ==
    /\ ~crashed
    /\ wpc[w] = "lock"
    /\ mu = 0
    /\ mu' = w
    /\ sliceRead' = [sliceRead EXCEPT ![w] = allResults]
    /\ wpc' = [wpc EXCEPT ![w] = "locked"]
    /\ UNCHANGED <<files, chunks, processedFiles, pc, attempt, sleeps, history,
                   callRet, reply, result, allResults, errChan,
                   unclassifiedFiles, ret, crashed, auxVars>>

\* src/models.go:417-418: the slice append built from what it read is
\* assigned to allResults, and the mutex is released.  The deferred
\* wg.Done() is still to run.
AppendUnlock(w) ==
    /\ ~crashed
    /\ wpc[w] = "locked"
    /\ allResults' = Append(sliceRead[w], result[w])
    /\ sliceRead' = [sliceRead EXCEPT ![w] = <<>>]
    /\ mu' = 0
    /\ wpc' = [wpc EXCEPT ![w] = "deferred"]
    /\ UNCHANGED <<files, chunks, processedFiles, pc, attempt, sleeps, history,
                   callRet, reply, result, errChan, unclassifiedFiles, ret,
                   crashed, auxVars>>

\* src/models.go:406: the goroutine function has returned and its deferred
\* wg.Done() runs
wgDone(w) ==
    /\ ~crashed
    /\ wpc[w] = "deferred"
    /\ wpc' = [wpc EXCEPT ![w] = "done"]
    /\ UNCHANGED <<files, chunks, processedFiles, pc, attempt, sleeps, history,
                   callRet, reply, result, mu, allResults, sliceRead, errChan,
                   unclassifiedFiles, ret, crashed, auxVars>>

\* the goroutines whose wg.Done() has run, on return or on panic
DoneCalled(w) == wpc[w] \in {"done", "panicked"}

\* a barrier that opens as soon as one worker is done
wgWaitForOne == \E w \in Workers : DoneCalled(w)

\* src/models.go:423: wg.Wait() returns once every goroutine has run its
\* deferred wg.Done()
wgWait == \A w \in Workers : DoneCalled(w)

\* src/models.go:423-431 and 447-457: wg.Wait() returns when every worker is
\* done; the rest of ClassifyFiles runs on the calling goroutine alone
ClassifyReturn ==
    /\ ~crashed
    /\ pc = "wait"
    /\ wgWait
    /\ LET un == IF Len(errChan) > 0 THEN NilMap
                 ELSE handleUnclassifiedFiles(files, processedFiles)
       IN  /\ unclassifiedFiles' = un
           /\ ret' = ClassifyReturnValue(allResults, errChan, un)
    /\ pc' = "done"
    /\ UNCHANGED <<files, chunks, processedFiles, wpc, attempt, sleeps,
                   history, callRet, reply, result, mu, allResults, sliceRead,
                   errChan, crashed, auxVars>>

Next ==
    \/ ClassifyStart
    \/ \E w \in Workers : AttemptOK(w)
    \/ \E w \in Workers : AttemptFails(w)
    \/ \E w \in Workers : SleepEnds(w)
    \/ \E w \in Workers : ChunkFails(w)
    \/ \E w \in Workers : ChunkResolves(w)
    \/ \E w \in Workers : ChoicesIndexPanics(w)
    \/ \E w \in Workers : MarkProcessed(w)
    \/ \E w \in Workers : Lock(w)
    \/ \E w \in Workers : AppendUnlock(w)
    \/ \E w \in Workers : wgDone(w)
    \/ ConcurrentMapWritesFatal
    \/ PanicEndsProcess
    \/ ClassifyReturn

Spec == Init /\ [][Next]_vars

(***************************************************************************)
(* Helpers of the properties.                                              *)
(***************************************************************************)
Distinct(fs) == Cardinality(PathsOf(fs)) = Len(fs)

RECURSIVE SumLens(_, _)
SumLens(m, cats) ==
    IF cats = {} THEN 0
    ELSE LET c == CHOOSE x \in cats : TRUE
         IN  Len(m[c]) + SumLens(m, cats \ {c})

TotalEntries(m) == SumLens(m, DOMAIN m)

\* no path is listed twice in one category
NoRepeatInCategory(m) ==
    \A c \in DOMAIN m : Cardinality(PathsOf(m[c])) = Len(m[c])

\* no path is listed under two categories
CategoriesDisjoint(m) ==
    \A c1, c2 \in DOMAIN m :
        c1 # c2 => PathsOf(m[c1]) \cap PathsOf(m[c2]) = {}

AllPaths(m) == UNION {PathsOf(m[c]) : c \in DOMAIN m}

\* A value r returned by ClassifyFiles: the entries the guard added under c,
\* the number of entries under c and the paths under c.
Unordered(r, c) == IF c \in DOMAIN r.unordered THEN r.unordered[c] ELSE {}

EntryCount(r, c) == Len(r.map[c]) + Cardinality(Unordered(r, c))

PathsUnder(r, c) == PathsOf(r.map[c]) \cup {f.Path : f \in Unordered(r, c)}

\* the entries of the guard carry their category, so entries under two
\* categories are different records
TotalEntriesOf(r) ==
    TotalEntries(r.map)
        + Cardinality(UNION {r.unordered[c] : c \in DOMAIN r.unordered})

AllPathsOf(r) == UNION {PathsUnder(r, c) : c \in DOMAIN r.map}

NoRepeatIn(r) ==
    \A c \in DOMAIN r.map : Cardinality(PathsUnder(r, c)) = EntryCount(r, c)

DisjointIn(r) ==
    \A c1, c2 \in DOMAIN r.map :
        c1 # c2 => PathsUnder(r, c1) \cap PathsUnder(r, c2) = {}

\* category name -> set of paths
SetMapOf(r) == [c \in DOMAIN r.map |-> PathsUnder(r, c)]

Succeeded == ret.returned /\ ret.err = NilErr

\* the message has the word JSON in it
MentionsJSON(err) == "JSON" \in Range(err)

\* the paths of chunk w its reply lists
MatchedBy(w) ==
    {p \in PathsOf(chunks[w]) :
        \E c \in DOMAIN reply[w].categories :
            \E i \in 1..Len(reply[w].categories[c]) :
                reply[w].categories[c][i] = p}

\* The value the call returns when the batches run one after the other, in
\* the order of the list, each with the given decoded reply, a non-empty
\* map.
SequentialClassify(fs, replies) ==
    LET cs == splitFileList(fs)
        results == [k \in 1..Len(cs) |-> ClassifiedFiles(cs[k], replies[k])]
        marked == UNION {MarkedPaths(cs[k], replies[k]) : k \in 1..Len(cs)}
        processed == MarkAll([p \in PathsOf(fs) |-> FALSE], marked)
    IN  ClassifyReturnValue(results, <<>>,
                            handleUnclassifiedFiles(fs, processed))

(***************************************************************************)
(* C1  Completeness: when ClassifyFiles returns without error for a        *)
(* non-empty input with pairwise distinct paths, the result has as many    *)
(* file entries as the input has files and every input path is listed in   *)
(* exactly one category, exactly once.                                     *)
(***************************************************************************)
C1_Completeness ==
    (Succeeded /\ Len(files) > 0 /\ Distinct(files)) =>
        /\ TotalEntriesOf(ret) = Len(files)
        /\ AllPathsOf(ret) = PathsOf(files)
        /\ NoRepeatIn(ret)
        /\ DisjointIn(ret)

(***************************************************************************)
(* C2  No duplication: no path is listed under two different categories,   *)
(* neither in the map a batch produced nor in the map ClassifyFiles        *)
(* returned.                                                               *)
(***************************************************************************)
C2_NoDuplication ==
    /\ \A w \in Workers : CategoriesDisjoint(result[w])
    /\ ret.returned => DisjointIn(ret)

(***************************************************************************)
(* C3  All-or-nothing: when a batch has reported an error, ClassifyFiles   *)
(* returns the nil map and the error of a failed batch; it never returns a *)
(* map together with an error.                                             *)
(***************************************************************************)
C3_AllOrNothing ==
    ret.returned =>
        /\ Len(errChan) > 0 =>
              /\ ret.isNil
              /\ ret.map = EmptyMap
              /\ ret.unordered = EmptyMap
              /\ ret.err \in Range(errChan)
        /\ ret.err # NilErr => ret.isNil
        /\ Len(errChan) = 0 => ret.err = NilErr /\ ~ret.isNil

\* one batch failed after another one had appended its result
C3_Witness ==
    /\ ret.returned
    /\ Len(errChan) = 1
    /\ Len(allResults) = 1
    /\ DOMAIN allResults[1] # {}
    /\ ret.isNil

(***************************************************************************)
(* C4  Fallback correctness: when all batches succeed, the files the       *)
(* guard puts under the reserved category are exactly the input paths that *)
(* the reply of their batch did not list, each once and with Category set  *)
(* to the reserved name; when every path was listed the guard returns no   *)
(* category.                                                               *)
(***************************************************************************)
Unmatched == PathsOf(files) \ UNION {MatchedBy(w) : w \in Workers}

C4_FallbackCorrect ==
    Succeeded =>
        IF Unmatched = {}
        THEN unclassifiedFiles.isNil /\ DOMAIN unclassifiedFiles.map = {}
        ELSE /\ ~unclassifiedFiles.isNil
             /\ DOMAIN unclassifiedFiles.map = {Unclassified}
             /\ {f.Path : f \in unclassifiedFiles.map[Unclassified]}
                   = Unmatched
             /\ Cardinality(unclassifiedFiles.map[Unclassified])
                   = Cardinality(Unmatched)
             /\ \A f \in unclassifiedFiles.map[Unclassified] :
                   f.Category = Unclassified
             /\ ret.unordered = unclassifiedFiles.map

\* two batches succeeded, one path was listed by its batch and the others
\* went to the reserved category
C4_Witness ==
    /\ Succeeded
    /\ Len(chunks) = 2
    /\ Unmatched # {}
    /\ Unmatched # PathsOf(files)
    /\ ~unclassifiedFiles.isNil

(***************************************************************************)
(* C5  Mutual exclusion on processedFiles: no two workers are at their     *)
(* writes to the shared map at the same time.                              *)
(***************************************************************************)
C5_MutualExclusion ==
    \A w1, w2 \in Workers :
        (wpc[w1] = "writing" /\ wpc[w2] = "writing") => w1 = w2

(***************************************************************************)
(* C6  Retry bound: callAPI makes at most 3 attempts; after k < 3          *)
(* non-JSON failures followed by a success it has returned the response    *)
(* after k + 1 attempts; after 3 non-JSON failures it makes no further     *)
(* attempt: it is in the sleep that follows the third, or it has returned  *)
(* an error that names the number 3, and it returns that error only then.  *)
(***************************************************************************)
AllTransient(h, n) == \A i \in 1..n : h[i] # NilErr /\ ~MentionsJSON(h[i])

C6_RetryBound ==
    \A w \in Workers :
        LET h == history[w]
            n == Len(h)
        IN  /\ n <= 3
            /\ (n >= 1 /\ n <= 3 /\ AllTransient(h, n - 1) /\ h[n] = NilErr) =>
                  /\ callRet[w].returned
                  /\ callRet[w].err = NilErr
                  /\ callRet[w].response.kind # "none"
            /\ (n = 3 /\ AllTransient(h, 3)) =>
                  /\ wpc[w] \in {"sleeping", "returned"}
                  /\ wpc[w] = "returned" =>
                        /\ callRet[w].returned
                        /\ callRet[w].response = NoResponse
                        /\ callRet[w].err = ExhaustedErr(h[3])
                        /\ "3" \in Range(callRet[w].err)
            /\ (n < 3 /\ AllTransient(h, n)) => ~callRet[w].returned
            /\ wpc[w] = "sleeping" =>
                  /\ ~callRet[w].returned
                  /\ n >= 1
                  /\ AllTransient(h, n)
                  /\ attempt[w] = n - 1
            /\ wpc[w] = "call" => attempt[w] = n /\ n < 3
            /\ (callRet[w].returned /\ callRet[w].err # NilErr
                  /\ ~MentionsJSON(callRet[w].err)) => n = 3

\* a call that succeeded at its third attempt, beside a call that gave up
\* after three
C6_Witness ==
    \E w1, w2 \in Workers :
        /\ Len(history[w1]) = 3
        /\ history[w1][3] = NilErr
        /\ callRet[w1].returned
        /\ callRet[w1].err = NilErr
        /\ Len(history[w2]) = 3
        /\ AllTransient(history[w2], 3)
        /\ callRet[w2].returned

(***************************************************************************)
(* C7  A JSON error is never retried: whichever attempt it occurs on,      *)
(* callAPI has returned that very error, made no further attempt, and      *)
(* slept only after the attempts before it.                                *)
(***************************************************************************)
C7_JSONErrorNotRetried ==
    \A w \in Workers :
        \A i \in 1..Len(history[w]) :
            MentionsJSON(history[w][i]) =>
                /\ i = Len(history[w])
                /\ callRet[w].returned
                /\ callRet[w].response = NoResponse
                /\ callRet[w].err = history[w][i]
                /\ Len(sleeps[w]) = i - 1
                /\ wpc[w] = "returned"

\* the JSON error came on the third attempt
C7_Witness ==
    \E w \in Workers :
        /\ Len(history[w]) = 3
        /\ MentionsJSON(history[w][3])
        /\ callRet[w].returned
        /\ Len(sleeps[w]) = 2

(***************************************************************************)
(* C8  Completion-order invariance: whatever the interleaving of the       *)
(* workers, when every batch produced its map and the call returns, the    *)
(* returned mapping from category to set of paths is the one the batches   *)
(* produce when run one after the other in list order.                     *)
(***************************************************************************)
C8_OrderInvariant ==
    (Succeeded /\ \A w \in Workers : wpc[w] = "done") =>
        SetMapOf(ret) =
            SetMapOf(SequentialClassify(files,
                        [w \in Workers |-> reply[w].categories]))

\* the second batch appended its result before the first, and both use one
\* category name
C8_Witness ==
    /\ Succeeded
    /\ Len(chunks) = 2
    /\ Len(allResults) >= 2
    /\ allResults[1] = result[2]
    /\ allResults[2] = result[1]
    /\ result[1] # result[2]
    /\ \E c \in DOMAIN result[1] \cap DOMAIN result[2] :
          result[1][c] # <<>> /\ result[2][c] # <<>>

(***************************************************************************)
(* The engine at rest, for the specifications of the text helpers.         *)
(***************************************************************************)
EngineIdle ==
    /\ chunks = <<>>
    /\ processedFiles = [p \in {} |-> FALSE]
    /\ pc = "idle"
    /\ wpc = <<>>
    /\ attempt = <<>>
    /\ sleeps = <<>>
    /\ history = <<>>
    /\ callRet = <<>>
    /\ reply = <<>>
    /\ result = <<>>
    /\ mu = 0
    /\ allResults = <<>>
    /\ sliceRead = <<>>
    /\ errChan = <<>>
    /\ unclassifiedFiles = NilMap
    /\ ret = NoRet
    /\ crashed = FALSE

(***************************************************************************)
(* Texts.  A text is a sequence of characters, each a one-character        *)
(* string.                                                                 *)
(***************************************************************************)
Quote == "\""
Backslash == "\\"

\* the only white space in the texts of the model is the blank
IsSpace(ch) == ch = " "

\* strings.TrimSpace
RECURSIVE TrimLeft(_)
TrimLeft(t) ==
    IF t # <<>> /\ IsSpace(Head(t)) THEN TrimLeft(Tail(t)) ELSE t

RECURSIVE TrimRight(_)
TrimRight(t) ==
    IF t # <<>> /\ IsSpace(t[Len(t)])
    THEN TrimRight(SubSeq(t, 1, Len(t) - 1)) ELSE t

TrimSpace(t) == TrimRight(TrimLeft(t))

\* strings.HasPrefix, strings.TrimPrefix, strings.HasSuffix, strings.TrimSuffix
HasPrefix(t, pre) == Len(t) >= Len(pre) /\ SubSeq(t, 1, Len(pre)) = pre

TrimPrefix(t, pre) ==
    IF HasPrefix(t, pre) THEN SubSeq(t, Len(pre) + 1, Len(t)) ELSE t

HasSuffix(t, suf) ==
    Len(t) >= Len(suf) /\ SubSeq(t, Len(t) - Len(suf) + 1, Len(t)) = suf

TrimSuffix(t, suf) ==
    IF HasSuffix(t, suf) THEN SubSeq(t, 1, Len(t) - Len(suf)) ELSE t

\* strings.Index and strings.LastIndex of one character, counted from 0;
\* -1 when the character does not occur
Index(t, ch) ==
    LET hits == {i \in 1..Len(t) : t[i] = ch}
    IN  IF hits = {} THEN 0 - 1
        ELSE (CHOOSE i \in hits : \A j \in hits : i <= j) - 1

LastIndex(t, ch) ==
    LET hits == {i \in 1..Len(t) : t[i] = ch}
    IN  IF hits = {} THEN 0 - 1
        ELSE (CHOOSE i \in hits : \A j \in hits : i >= j) - 1

Count(t, ch) == Cardinality({i \in 1..Len(t) : t[i] = ch})

\* strings.Repeat of one character
Repeat(ch, n) == [i \in 1..n |-> ch]

\* the backquote cannot be written in a TLA+ string
Backquote == "BQ"

\* the markdown fence, bare and with its language tag (src/models.go:105-113)
Fence == <<Backquote, Backquote, Backquote>>
FenceJSON == Fence \o <<"j", "s", "o", "n">>

(***************************************************************************)
(* isValidJSON (src/models.go:206-254).                                    *)
(***************************************************************************)
\* the loop of src/models.go:217-251, from character i on
RECURSIVE ScanFrom(_, _, _, _, _)
ScanFrom(t, i, stack, inString, escaped) ==
    IF i > Len(t) THEN Len(stack) = 0 /\ ~inString
    ELSE IF escaped THEN ScanFrom(t, i + 1, stack, inString, FALSE)
    ELSE IF t[i] = Backslash THEN ScanFrom(t, i + 1, stack, inString, TRUE)
    ELSE IF t[i] = Quote THEN ScanFrom(t, i + 1, stack, ~inString, FALSE)
    ELSE IF inString THEN ScanFrom(t, i + 1, stack, inString, FALSE)
    ELSE IF t[i] \in {"{", "["}
         THEN ScanFrom(t, i + 1, Append(stack, t[i]), inString, FALSE)
    ELSE IF t[i] = "}"
         THEN IF Len(stack) = 0 \/ stack[Len(stack)] # "{" THEN FALSE
              ELSE ScanFrom(t, i + 1, SubSeq(stack, 1, Len(stack) - 1),
                            inString, FALSE)
    ELSE IF t[i] = "]"
         THEN IF Len(stack) = 0 \/ stack[Len(stack)] # "[" THEN FALSE
              ELSE ScanFrom(t, i + 1, SubSeq(stack, 1, Len(stack) - 1),
                            inString, FALSE)
    ELSE ScanFrom(t, i + 1, stack, inString, FALSE)

isValidJSON(text) ==
    LET t == TrimSpace(text)
    IN  IF ~HasPrefix(t, <<"{">>) \/ ~HasSuffix(t, <<"}">>) THEN FALSE
        ELSE ScanFrom(t, 1, <<>>, FALSE, FALSE)

(***************************************************************************)
(* fixIncompleteJSON (src/models.go:139-203).                              *)
(***************************************************************************)
\* src/models.go:148-150
FixOpen(t) == IF ~HasPrefix(t, <<"{">>) THEN <<"{">> \o t ELSE t

\* src/models.go:153-155
FixClose(t) == IF ~HasSuffix(t, <<"}">>) THEN t \o <<"}">> ELSE t

\* src/models.go:158-171
FixBrackets(t) ==
    IF Count(t, "[") > Count(t, "]")
    THEN t \o Repeat("]", Count(t, "[") - Count(t, "]")) ELSE t

\* src/models.go:174-187
FixBraces(t) ==
    IF Count(t, "{") > Count(t, "}")
    THEN t \o Repeat("}", Count(t, "{") - Count(t, "}")) ELSE t

\* src/models.go:190-200
FixQuotes(t) == IF Count(t, Quote) % 2 # 0 THEN t \o <<Quote>> ELSE t

fixIncompleteJSON(text) ==
    LET t == TrimSpace(text)
    IN  IF t = <<>> THEN t
        ELSE FixQuotes(FixBraces(FixBrackets(FixClose(FixOpen(t)))))

(***************************************************************************)
(* extractJSONFromContent (src/models.go:101-136).                         *)
(***************************************************************************)
\* src/models.go:105-116
StripFences(t) ==
    LET a == IF HasPrefix(t, FenceJSON)
             THEN TrimSpace(TrimPrefix(t, FenceJSON)) ELSE t
        b == IF HasPrefix(a, Fence) THEN TrimSpace(TrimPrefix(a, Fence)) ELSE a
    IN  IF HasSuffix(b, Fence) THEN TrimSpace(TrimSuffix(b, Fence)) ELSE b

\* src/models.go:119-135
ExtractObject(t) ==
    LET start == Index(t, "{")
        end == LastIndex(t, "}")
        jsonContent == SubSeq(t, start + 1, end + 1)
    IN  IF start = 0 - 1 \/ end = 0 - 1 \/ end <= start THEN t
        ELSE IF ~isValidJSON(jsonContent) THEN fixIncompleteJSON(jsonContent)
        ELSE jsonContent

extractJSONFromContent(text) == ExtractObject(StripFences(TrimSpace(text)))

\* src/models.go:345-349: the extraction and repair step of a reply
RepairStep(text) == fixIncompleteJSON(extractJSONFromContent(text))

(***************************************************************************)
(* The texts the repair step is run on: JSON objects with one key and a    *)
(* list of strings, their truncations and their fenced forms.              *)
(***************************************************************************)
\* what a JSON string may hold between its quotes: a plain character, a
\* bracket or brace, or an escaped quote
Units == {<<"a">>, <<"[">>, <<"]">>, <<"{">>, <<"}">>, <<Backslash, Quote>>}

RECURSIVE Flatten(_)
Flatten(us) == IF us = <<>> THEN <<>> ELSE Head(us) \o Flatten(Tail(us))

StringBodies == {Flatten(us) : us \in SeqsUpTo(Units, MaxUnits)}

JSONString(body) == <<Quote>> \o body \o <<Quote>>

RECURSIVE JoinStrings(_)
JoinStrings(bodies) ==
    IF bodies = <<>> THEN <<>>
    ELSE IF Len(bodies) = 1 THEN JSONString(bodies[1])
    ELSE JSONString(bodies[1]) \o <<",">> \o JoinStrings(Tail(bodies))

\* {"a":[ ... ]}
JSONObject(bodies) ==
    <<"{">> \o JSONString(<<"a">>) \o <<":", "[">> \o JoinStrings(bodies)
    \o <<"]", "}">>

JSONObjects ==
    {JSONObject(<<>>)}
    \cup {JSONObject(<<b>>) : b \in StringBodies}
    \cup {JSONObject(<<b, <<"a">>>>) : b \in StringBodies}

Truncations == UNION {{SubSeq(t, 1, n) : n \in 1..Len(t)} : t \in JSONObjects}

Fenced == {FenceJSON \o <<" ">> \o t \o <<" ">> \o Fence : t \in JSONObjects}

Texts == JSONObjects \cup Truncations \cup Fenced

InitRepair ==
    /\ content \in Texts
    /\ repaired = <<>>
    /\ files = <<>>
    /\ EngineIdle

\* the step of src/models.go:345-349
Repair ==
    /\ pc = "idle"
    /\ content # NoText
    /\ repaired = <<>>
    /\ repaired' = <<RepairStep(content)>>
    /\ UNCHANGED <<engineVars, content>>

\* the same step, applied to its own output
RepairAgain ==
    /\ pc = "idle"
    /\ Len(repaired) = 1
    /\ repaired' = Append(repaired, RepairStep(repaired[1]))
    /\ UNCHANGED <<engineVars, content>>

NextRepair == Repair \/ RepairAgain

SpecRepair == InitRepair /\ [][NextRepair]_vars

(***************************************************************************)
(* C10  Repair idempotence: on a text that is a valid JSON object the      *)
(* extraction and repair step returns the text unchanged, the first time   *)
(* and the second time.                                                    *)
(***************************************************************************)
C10_RepairIdempotent ==
    content \in JSONObjects =>
        \A i \in 1..Len(repaired) : repaired[i] = content

(***************************************************************************)
(* C11  Empty input short-circuit: on an empty file list ClassifyFiles     *)
(* builds no chunk, starts no worker, makes no Transport call, and returns *)
(* an empty (non-nil) map with no error.                                   *)
(***************************************************************************)
C11_EmptyShortCircuit ==
    (Len(files) = 0 /\ pc \in {"wait", "done"}) =>
        /\ chunks = <<>>
        /\ Workers = {}
        /\ wpc = <<>>
        /\ history = <<>>
        /\ callRet = <<>>
        /\ allResults = <<>>
        /\ errChan = <<>>
        /\ pc = "done" =>
              /\ ret.returned
              /\ ~ret.isNil
              /\ ret.map = EmptyMap
              /\ ret.unordered = EmptyMap
              /\ ret.err = NilErr

\* the call on the empty list has returned
C11_Witness ==
    /\ Len(files) = 0
    /\ pc = "done"
    /\ ret.returned
    /\ DOMAIN ret.map = {}

(***************************************************************************)
(* C12  Fan-in barrier: ClassifyFiles has returned only when every worker  *)
(* has ended; the guard has run only then, on the final processedFiles,    *)
(* and the merger on the final results list, and neither has run when a    *)
(* worker reported an error.                                               *)
(***************************************************************************)
C12_FanInBarrier ==
    /\ ~ret.returned => unclassifiedFiles = NilMap
    /\ ret.returned =>
          /\ pc = "done"
          /\ \A w \in Workers : DoneCalled(w)
          /\ mu = 0
          /\ Len(errChan) > 0 =>
                /\ unclassifiedFiles = NilMap
                /\ ret.map = EmptyMap
                /\ ret.unordered = EmptyMap
                /\ ret.isNil
          /\ Len(errChan) = 0 =>
                /\ unclassifiedFiles =
                      handleUnclassifiedFiles(files, processedFiles)
                /\ ret.map =
                      mergeClassificationResults(
                          IF unclassifiedFiles.isNil THEN allResults
                          ELSE Append(allResults,
                                      KeysOf(unclassifiedFiles.map)))
                /\ ret.unordered = unclassifiedFiles.map

\* two workers ran to their end before the call returned a map in which
\* the guard put a file
C12_Witness ==
    /\ ret.returned
    /\ Len(chunks) = 2
    /\ \A w \in Workers : wpc[w] = "done"
    /\ Len(allResults) = 2
    /\ ~unclassifiedFiles.isNil
    /\ Unclassified \in DOMAIN ret.map

(***************************************************************************)
(* C13  No re-prompt: a step in which a worker fetches a reply takes it    *)
(* out of callAPI; a worker that has left callAPI never makes another      *)
(* Transport call; a fetched reply that fails validation, parsing or the   *)
(* empty-map test ends the batch with an error; a finished batch is not    *)
(* run again.                                                              *)
(***************************************************************************)
Fetched(w) == callRet[w].returned /\ callRet[w].err = NilErr

\* the worker is in callAPI: at a Transport call or in a backoff sleep
InCallAPI(w) == wpc[w] \in {"call", "sleeping"}

BadReply(r) ==
    \/ r.kind \in {"invalid", "unparsable"}
    \/ r.kind = "object" /\ DOMAIN r.categories = {}

C13_NoReprompt ==
    [][\A w \in Workers :
          /\ (Len(history'[w]) > Len(history[w])
                 /\ history'[w][Len(history'[w])] = NilErr) =>
                /\ wpc'[w] = "returned"
                /\ callRet'[w].returned
                /\ callRet'[w].err = NilErr
          /\ ~InCallAPI(w) =>
                /\ ~InCallAPI(w)'
                /\ Len(history'[w]) <= Len(history[w])
          /\ (Fetched(w) /\ BadReply(callRet[w].response)
                 /\ wpc'[w] # wpc[w]) =>
                /\ wpc'[w] = "deferred"
                /\ Len(errChan') = Len(errChan) + 1
                /\ result'[w] = EmptyMap
          /\ wpc[w] = "deferred" => wpc'[w] \in {"deferred", "done"}
          /\ wpc[w] = "done" => wpc'[w] = "done"]_vars

\* a reply was fetched; it failed validation and the batch ended with its
\* error on the channel
C13_Witness ==
    \E w \in Workers :
        /\ wpc[w] = "done"
        /\ reply[w].kind = "invalid"
        /\ Len(errChan) > 0
        /\ result[w] = EmptyMap

(***************************************************************************)
(* json.Unmarshal into a map[string][]string (src/models.go:357-360).  The *)
(* decoder accepts an object whose values are arrays of strings, with      *)
(* blanks between the tokens, and nothing after the object; every other    *)
(* text is a syntax error or a type error, and both make Unmarshal return  *)
(* an error.  The texts of the model have no digit, no literal and no      *)
(* \u escape.  A decoded string is a sequence of characters.               *)
(***************************************************************************)
DecodeFails == [ok |-> FALSE, next |-> 0, val |-> <<>>]

\* index of the first character from i on that is not white space
SkipSpace(t, i) ==
    LET js == {j \in i..Len(t) : ~IsSpace(t[j])}
    IN  IF js = {} THEN Len(t) + 1 ELSE CHOOSE j \in js : \A k \in js : j <= k

\* the character an escape sequence stands for
Unescaped(ch) ==
    IF ch = "n" THEN "\n"
    ELSE IF ch = "t" THEN "\t"
    ELSE IF ch = "r" THEN "\r"
    ELSE IF ch = "f" THEN "\f"
    ELSE ch

\* a string, from the character after its opening quote
RECURSIVE StringFrom(_, _, _)
StringFrom(t, i, acc) ==
    IF i > Len(t) THEN DecodeFails
    ELSE IF t[i] = Quote THEN [ok |-> TRUE, next |-> i + 1, val |-> acc]
    ELSE IF t[i] = Backslash
         THEN IF i + 1 <= Len(t)
                 /\ t[i + 1] \in {Quote, Backslash, "/", "n", "t", "r", "f"}
              THEN StringFrom(t, i + 2, Append(acc, Unescaped(t[i + 1])))
              ELSE DecodeFails
    ELSE StringFrom(t, i + 1, Append(acc, t[i]))

\* the elements of a non-empty array, from where an element must start
RECURSIVE ElementsFrom(_, _, _)
ElementsFrom(t, i, acc) ==
    LET j == SkipSpace(t, i)
    IN  IF j > Len(t) \/ t[j] # Quote THEN DecodeFails
        ELSE LET s == StringFrom(t, j + 1, <<>>)
                 k == SkipSpace(t, s.next)
             IN  IF ~s.ok \/ k > Len(t) THEN DecodeFails
                 ELSE IF t[k] = ","
                      THEN ElementsFrom(t, k + 1, Append(acc, s.val))
                 ELSE IF t[k] = "]"
                      THEN [ok |-> TRUE, next |-> k + 1,
                            val |-> Append(acc, s.val)]
                 ELSE DecodeFails

\* an array of strings, from the character after its opening bracket
ArrayFrom(t, i) ==
    LET j == SkipSpace(t, i)
    IN  IF j <= Len(t) /\ t[j] = "]"
        THEN [ok |-> TRUE, next |-> j + 1, val |-> <<>>]
        ELSE ElementsFrom(t, i, <<>>)

\* m[key] = value
Store(m, key, value) ==
    [c \in DOMAIN m \cup {key} |-> IF c = key THEN value ELSE m[c]]

\* the members of a non-empty object, from where a key must start
RECURSIVE MembersFrom(_, _, _)
MembersFrom(t, i, acc) ==
    LET j == SkipSpace(t, i)
    IN  IF j > Len(t) \/ t[j] # Quote THEN DecodeFails
        ELSE LET key == StringFrom(t, j + 1, <<>>)
                 colon == SkipSpace(t, key.next)
                 open == SkipSpace(t, colon + 1)
             IN  IF ~key.ok \/ colon > Len(t) \/ open > Len(t) THEN DecodeFails
                 ELSE IF t[colon] # ":" \/ t[open] # "[" THEN DecodeFails
                 ELSE LET arr == ArrayFrom(t, open + 1)
                          k == SkipSpace(t, arr.next)
                      IN  IF ~arr.ok \/ k > Len(t) THEN DecodeFails
                          ELSE IF t[k] = ","
                               THEN MembersFrom(t, k + 1,
                                                Store(acc, key.val, arr.val))
                          ELSE IF t[k] = "}"
                               THEN [ok |-> TRUE, next |-> k + 1,
                                     val |-> Store(acc, key.val, arr.val)]
                          ELSE DecodeFails

\* the whole text: [ok, val], val the decoded map
Unmarshal(t) ==
    LET start == SkipSpace(t, 1)
        first == SkipSpace(t, start + 1)
        obj == IF start > Len(t) \/ first > Len(t) THEN DecodeFails
               ELSE IF t[start] # "{" THEN DecodeFails
               ELSE IF t[first] = "}"
                    THEN [ok |-> TRUE, next |-> first + 1, val |-> EmptyMap]
               ELSE MembersFrom(t, start + 1, EmptyMap)
    IN  IF obj.ok /\ SkipSpace(t, obj.next) > Len(t)
        THEN [ok |-> TRUE, val |-> obj.val]
        ELSE [ok |-> FALSE, val |-> EmptyMap]

(***************************************************************************)
(* One batch and the text of its reply: processClassificationChunk from    *)
(* the response on (src/models.go:344-391).  In this specification a path  *)
(* and a category name are the character sequences the reply spells.       *)
(***************************************************************************)
\* the files of the batch: one named a, one named [
ReplyFiles == <<FileInfo(<<"a">>), FileInfo(<<"[">>)>>

\* src/models.go:353-360, on the text after extraction and repair
DecodedText(t) ==
    IF ~isValidJSON(t) THEN [kind |-> "invalid", categories |-> EmptyMap]
    ELSE IF ~Unmarshal(t).ok
         THEN [kind |-> "unparsable", categories |-> EmptyMap]
    ELSE [kind |-> "object", categories |-> Unmarshal(t).val]

InitReply ==
    /\ files = ReplyFiles
    /\ EngineInit
    /\ TextIdle

\* callAPI returns a response whose content is the text; the response is
\* kept as what src/models.go:345-360 make of that text
AttemptOKText(w) ==
    /\ ~crashed
    /\ wpc[w] = "call"
    /\ \E text \in Texts :
          /\ content' = text
          /\ repaired' = <<RepairStep(text)>>
          /\ callRet' = [callRet EXCEPT ![w] =
                           [returned |-> TRUE,
                            response |-> DecodedText(RepairStep(text)),
                            err |-> NilErr]]
    /\ history' = [history EXCEPT ![w] = Append(@, NilErr)]
    /\ wpc' = [wpc EXCEPT ![w] = "returned"]
    /\ UNCHANGED <<files, chunks, processedFiles, pc, attempt, sleeps, reply,
                   result, mu, allResults, sliceRead, errChan,
                   unclassifiedFiles, ret, crashed>>

NextReply ==
    \/ ClassifyStart
    \/ \E w \in Workers : AttemptOKText(w)
    \/ \E w \in Workers : ChunkFails(w)
    \/ \E w \in Workers : ChunkResolves(w)
    \/ \E w \in Workers : MarkProcessed(w)
    \/ \E w \in Workers : wgDone(w)

SpecReply == InitReply /\ [][NextReply]_vars

(***************************************************************************)
(* C14  Malformed replies are fatal for their batch: when the text after   *)
(* extraction and repair does not start with {, does not end with }, fails *)
(* the string-aware scan, cannot be decoded into a map from category to    *)
(* list of paths, or decodes to a map without categories, then             *)
(* processClassificationChunk returns an error and no map, and no path of  *)
(* the batch is marked processed.                                          *)
(***************************************************************************)
Malformed(t) ==
    \/ ~HasPrefix(t, <<"{">>)
    \/ ~HasSuffix(t, <<"}">>)
    \/ ~isValidJSON(t)
    \/ ~Unmarshal(t).ok
    \/ DOMAIN Unmarshal(t).val = {}

\* the error the goroutine of batch w reports for such a text
MalformedErr(w, t) ==
    <<"processing batch", ToString(w), "failed:",
      IF ~isValidJSON(t) THEN "API returned incomplete JSON content"
      ELSE IF ~Unmarshal(t).ok THEN "parsing classification result failed"
      ELSE "API returned an empty classification">>

C14_MalformedFatal ==
    \A w \in Workers :
        (Len(repaired) = 1 /\ Malformed(repaired[1])) =>
            /\ wpc[w] \in {"returned", "deferred", "done"}
            /\ result[w] = EmptyMap
            /\ \A p \in DOMAIN processedFiles : ~processedFiles[p]
            /\ allResults = <<>>
            /\ wpc[w] \in {"deferred", "done"} =>
                  errChan = <<MalformedErr(w, repaired[1])>>

\* the reply is the single character {, repaired to {}: it passes the scan
\* and decodes to a map without categories, and the batch has failed
C14_Witness ==
    /\ content = <<"{">>
    /\ repaired = <<(<<"{", "}">>)>>
    /\ wpc = <<"done">>
    /\ Len(errChan) = 1
    /\ result = <<EmptyMap>>

(***************************************************************************)
(* C15  Resolver batch-locality: a path a reply lists that is not the path *)
(* of a file of that batch causes no error, adds no entry to the map of    *)
(* the batch and sets no flag; a flag is set only for a file whose own     *)
(* batch listed it, and every entry of the returned map carries a path of  *)
(* the input.                                                              *)
(***************************************************************************)
\* the paths the reply of batch w lists
ListedBy(w) ==
    UNION {Range(reply[w].categories[c]) : c \in DOMAIN reply[w].categories}

\* the number of listings under category c of paths of the batch itself
OwnListings(w, c) ==
    Cardinality({i \in 1..Len(reply[w].categories[c]) :
                    reply[w].categories[c][i] \in PathsOf(chunks[w])})

\* batch w has a decoded reply with at least one category
Resolved(w) ==
    /\ wpc[w] \in {"writing", "lock", "locked", "deferred", "done"}
    /\ reply[w].kind = "object"
    /\ DOMAIN reply[w].categories # {}

C15_BatchLocal ==
    [][/\ \A w \in Workers :
             /\ result'[w] # result[w] =>
                   /\ AllPaths(result'[w])
                         \subseteq PathsOf(chunks[w]) \cap ListedBy(w)'
                   /\ DOMAIN result'[w] = DOMAIN reply'[w].categories
                   /\ \A c \in DOMAIN result'[w] :
                         Len(result'[w][c]) = OwnListings(w, c)'
             /\ (Resolved(w)' /\ ~Resolved(w)) =>
                   /\ errChan' = errChan
                   /\ \A i \in 1..Len(errChan) : errChan[i][2] # ToString(w)
             /\ (wpc[w] = "returned" /\ wpc'[w] = "deferred") =>
                   ~(callRet[w].err = NilErr
                       /\ callRet[w].response.kind = "object"
                       /\ DOMAIN callRet[w].response.categories # {})
       /\ (pc # "start" /\ processedFiles' # processedFiles) =>
             \E w \in Workers :
                 /\ wpc[w] = "writing"
                 /\ wpc'[w] = "lock"
                 /\ \A p \in DOMAIN processedFiles :
                       processedFiles'[p] # processedFiles[p] =>
                           p \in ListedBy(w) /\ p \in PathsOf(chunks[w])
       /\ (ret'.returned /\ ~ret.returned /\ ret'.err = NilErr) =>
             AllPathsOf(ret') \subseteq PathsOf(files)]_vars

\* the reply of one batch listed a file of the other batch, which its own
\* batch did not list: the call succeeded and the guard placed the file
C15_Witness ==
    /\ Succeeded
    /\ Len(chunks) = 2
    /\ \E w, v \in Workers :
          /\ w # v
          /\ \E p \in ListedBy(w) \cap PathsOf(chunks[v]) :
                /\ p \notin PathsOf(chunks[w])
                /\ p \notin ListedBy(v)
                /\ ~processedFiles[p]
                /\ p \in PathsUnder(ret, Unclassified)

(***************************************************************************)
(* C16  String-aware balance repair: the repair pass counts {, }, [, ]     *)
(* only outside quoted strings and only unescaped quotes, over the slice   *)
(* it is given, and appends exactly the missing number of }, the missing   *)
(* number of ] and one quote when the quote count is odd; what stands      *)
(* inside a string or behind a backslash makes it append nothing.          *)
(***************************************************************************)
\* for every character of the text: "quote" for an unescaped quote, "in"
\* for a character inside a string or behind a backslash, "out" otherwise
RECURSIVE CharKinds(_, _, _, _)
CharKinds(t, i, inString, escaped) ==
    IF i > Len(t) THEN <<>>
    ELSE IF escaped THEN <<"in">> \o CharKinds(t, i + 1, inString, FALSE)
    ELSE IF t[i] = Backslash
         THEN <<"in">> \o CharKinds(t, i + 1, inString, TRUE)
    ELSE IF t[i] = Quote
         THEN <<"quote">> \o CharKinds(t, i + 1, ~inString, FALSE)
    ELSE <<(IF inString THEN "in" ELSE "out")>>
         \o CharKinds(t, i + 1, inString, FALSE)

CountOutside(t, ch) ==
    LET kinds == CharKinds(t, 1, FALSE, FALSE)
    IN  Cardinality({i \in 1..Len(t) : t[i] = ch /\ kinds[i] = "out"})

CountUnescapedQuotes(t) ==
    LET kinds == CharKinds(t, 1, FALSE, FALSE)
    IN  Cardinality({i \in 1..Len(t) : kinds[i] = "quote"})

Missing(open, close) == IF open > close THEN open - close ELSE 0

\* out is slice followed by exactly the characters the string-aware counts
\* of slice ask for
StringAwareRepair(slice, out) ==
    LET suffix == SubSeq(out, Len(slice) + 1, Len(out))
        braces == Missing(CountOutside(slice, "{"), CountOutside(slice, "}"))
        brackets == Missing(CountOutside(slice, "["), CountOutside(slice, "]"))
        quotes == CountUnescapedQuotes(slice) % 2
    IN  /\ Len(out) >= Len(slice)
        /\ SubSeq(out, 1, Len(slice)) = slice
        /\ Count(suffix, "}") = braces
        /\ Count(suffix, "]") = brackets
        /\ Count(suffix, Quote) = quotes
        /\ Len(suffix) = braces + brackets + quotes

\* the slice the counting loops of fixIncompleteJSON are given is the text
\* extractJSONFromContent returned, trimmed and put between braces
C16_StringAwareRepair ==
    Len(repaired) >= 1 =>
        StringAwareRepair(
            FixClose(FixOpen(TrimSpace(extractJSONFromContent(content)))),
            repaired[1])

(***************************************************************************)
(* C17  Backoff only between attempts: the wait after the failed attempt   *)
(* with 0-based index i is 2^i seconds, and a call of callAPI that has     *)
(* returned after n attempts has waited exactly n - 1 times: nothing is    *)
(* waited after the final attempt.                                         *)
(***************************************************************************)
C17_BackoffBetweenAttempts ==
    \A w \in Workers :
        /\ \A i \in 1..Len(sleeps[w]) : sleeps[w][i] = Pow2(i - 1)
        /\ Len(sleeps[w]) <= Len(history[w])
        /\ callRet[w].returned => Len(sleeps[w]) = Len(history[w]) - 1

(***************************************************************************)
(* C18  Single representative error: when batches failed, ClassifyFiles    *)
(* returns one error, the first that was put on the error channel; it      *)
(* names its batch by the 1-based index; the errors of the batches that    *)
(* failed later are not returned.                                          *)
(***************************************************************************)
\* the worker an error of the channel names
NamedBy(err) == {w \in Workers : SubSeq(err, 1, 3) = BatchErr(w, NilErr)}

C18_FirstError ==
    /\ \A i \in 1..Len(errChan) :
          /\ Cardinality(NamedBy(errChan[i])) = 1
          /\ \A w \in NamedBy(errChan[i]) :
                /\ wpc[w] \in {"deferred", "done"}
                /\ result[w] = EmptyMap
                /\ errChan[i][2] = ToString(w)
          /\ \A j \in 1..Len(errChan) :
                i # j => NamedBy(errChan[i]) # NamedBy(errChan[j])
    /\ (ret.returned /\ Len(errChan) > 0) =>
          /\ ret.err = errChan[1]
          /\ ret.isNil
          /\ ret.map = EmptyMap
          /\ ret.unordered = EmptyMap

\* both batches failed, the second one first and with another error than
\* the first: the error returned is the one of the second batch
C18_Witness ==
    /\ ret.returned
    /\ Len(errChan) = 2
    /\ NamedBy(errChan[1]) = {2}
    /\ NamedBy(errChan[2]) = {1}
    /\ SubSeq(errChan[1], 4, Len(errChan[1]))
          # SubSeq(errChan[2], 4, Len(errChan[2]))
    /\ ret.err = errChan[1]
    /\ ret.err # errChan[2]

(***************************************************************************)
(* C19  Chunker partition: for a list of n > 0 files and B = 150,          *)
(* splitFileList returns ceil(n/B) chunks; every chunk but the last has B  *)
(* files, the last has between 1 and B; the chunks, one after the other,   *)
(* are the input list.  The chunks are not changed afterwards.             *)
(***************************************************************************)
IsPartition(fs, cs, B) ==
    LET n == Len(fs)
    IN  /\ Len(cs) = (n + B - 1) \div B
        /\ \A k \in 1..(Len(cs) - 1) : Len(cs[k]) = B
        /\ Len(cs[Len(cs)]) \in 1..B
        /\ Len(cs[Len(cs)]) = n - (Len(cs) - 1) * B
        /\ \A k \in 1..Len(cs) :
              cs[k] = SubSeq(fs, (k - 1) * B + 1, (k - 1) * B + Len(cs[k]))

C19_ChunkerPartition ==
    [][/\ (pc = "start" /\ Len(files) > 0) =>
             /\ pc' = "wait"
             /\ files' = files
             /\ IsPartition(files, chunks', 150)
       /\ pc # "start" => chunks' = chunks]_vars

\* 151 files: a chunk of 150 and a chunk of 1
C19_Witness ==
    /\ pc = "wait"
    /\ Len(files) = 151
    /\ Len(chunks) = 2
    /\ Len(chunks[1]) = 150
    /\ Len(chunks[2]) = 1
    /\ chunks[2][1] = files[151]

(***************************************************************************)
(* C20  Results-list exclusion: a worker is at its append only while it    *)
(* holds the mutex, so at most one is; no append is lost: the list holds   *)
(* one map for every worker that came to its end without error, and after *)
(* the barrier, when no batch failed, one map per batch.                   *)
(***************************************************************************)
\* the workers whose append is done
Appended ==
    {w \in Workers :
        /\ wpc[w] \in {"deferred", "done"}
        /\ \A i \in 1..Len(errChan) : errChan[i][2] # ToString(w)}

C20_ResultsExclusion ==
    /\ \A w \in Workers : wpc[w] = "locked" <=> mu = w
    /\ \A w \in Workers : wpc[w] = "locked" => sliceRead[w] = allResults
    /\ Len(allResults) = Cardinality(Appended)
    /\ \A w \in Appended :
          \E i \in 1..Len(allResults) : allResults[i] = result[w]
    /\ \A i \in 1..Len(allResults) :
          \E w \in Appended : allResults[i] = result[w]
    /\ (pc = "done" /\ Len(errChan) = 0
          /\ \A w \in Workers : wpc[w] # "panicked") =>
             Len(allResults) = Len(chunks)

\* the second batch waits for the mutex while the first is at its append
C20_Witness ==
    /\ Len(chunks) = 2
    /\ wpc = <<"locked", "lock">>
    /\ mu = 1
    /\ allResults = <<>>

(***************************************************************************)
(* C22  No empty categories: every category of the map a successful        *)
(* ClassifyFiles returns has at least one file, also when the reply of a   *)
(* batch names a category with an empty array or with paths that match no  *)
(* file of the batch.                                                      *)
(***************************************************************************)
C22_NoEmptyCategory ==
    Succeeded => \A c \in DOMAIN ret.map : EntryCount(ret, c) > 0

(***************************************************************************)
(* C23  Every reply yields an outcome: for every response the Transport    *)
(* returns without error, a response without choices included, the worker  *)
(* of the batch ends by returning a map or an error; it never aborts on    *)
(* Choices[0].                                                             *)
(***************************************************************************)
C23_ReplyYieldsOutcome ==
    \A w \in Workers : wpc[w] # "panicked"

(***************************************************************************)
(* C21  Termination without deadlock: a worker that has an error to report *)
(* always finds room on the error channel, and the call can stop only      *)
(* where every worker is done and ClassifyFiles has returned.  No step     *)
(* leads back to a state already passed, so with every Transport call      *)
(* returning this is termination.                                          *)
(***************************************************************************)
C21_TerminatesNoDeadlock ==
    /\ Len(errChan) <= Len(chunks)
    /\ \A w \in Workers :
          (wpc[w] = "returned" /\ ~NoFirstChoice(callRet[w])
              /\ ChunkErr(callRet[w]) # NilErr) =>
                Len(errChan) < Len(chunks)
    /\ ~(ENABLED Next) =>
          /\ pc = "done"
          /\ ret.returned
          /\ \A w \in Workers : wpc[w] = "done"

====
